---- MODULE Spec2Model ----
(***************************************************************************)
(* Train / score pipeline of the traffic anomaly detection DAG:            *)
(*   airflow/dags/train_iforest.py      (Training Component)               *)
(*   airflow/dags/score_iforest.py      (Scoring Component + reporting)    *)
(*   airflow/dags/dag_anomaly_mlflow.py (scheduler wiring)                 *)
(* The MLflow registry, the file system and the Airflow scheduler are the  *)
(* environment; they are modelled by what the scripts ask of them.         *)
(***************************************************************************)
EXTENDS Integers, Sequences, FiniteSets, TLC

(***************************************************************************)
(* Bounds of the model.                                                    *)
(***************************************************************************)
\* rows of a training file in the data specification
MaxRows == 2
\* rows of a file to score in the data specification
MaxScoreRows == 1
\* script processes that may run at once: one per DAG execution in Spec,
\* one per shell in SpecCli
MaxProcs == 2
\* Runs the registry may hold
MaxRuns == 2
\* last reading of the wall clock
MaxTime == 1

(***************************************************************************)
(* Values of the tabular data.  A missing value (NaN / NaT) of a numeric   *)
(* column is the integer NaN; every real numeric value is positive.        *)
(***************************************************************************)
NaN == 0 - 1

DateCol == "crash_date"
RawCols == {"crash_date", "speed", "weather"}
DateParts == {"year", "month", "day"}

DateVals == {"2024-03-05", "unknown"}
SpeedVals == {10, 30, NaN}
WeatherVals == {"rain", "snow"}

\* pd.to_datetime(errors="coerce", format="mixed"): an unparseable value is NaT
ParsesAsDate(s) == s = "2024-03-05"

DatePart(s, part) ==
    IF ~ParsesAsDate(s) THEN NaN
    ELSE CASE part = "year" -> 2024
           [] part = "month" -> 3
           [] part = "day" -> 5

\* A csv file: its header (a non-empty set of raw columns) and its rows.
RowsOver(cols) ==
    {[c \in cols |-> r[c]] :
        r \in [crash_date : DateVals, speed : SpeedVals, weather : WeatherVals]}

SeqsUpTo(S, n) == UNION {[1..k -> S] : k \in 0..n}

FilesOver(cols, n) == {[cols |-> cols, rows |-> rs] : rs \in SeqsUpTo(RowsOver(cols), n)}

Headers == (SUBSET RawCols) \ {{}}

TrainFiles == UNION {FilesOver(cols, MaxRows) : cols \in Headers}

ScoreFiles == UNION {FilesOver(cols, MaxScoreRows) : cols \in Headers}

RowIdx(df) == 1..Len(df.rows)

\* pd.read_csv: the column types pandas infers from the values
ReadCsvDtype(file, c) ==
    IF Len(file.rows) = 0 THEN "object"
    ELSE IF c = "speed"
         THEN IF \E i \in 1..Len(file.rows) : file.rows[i][c] = NaN
              THEN "float64" ELSE "int64"
         ELSE "object"

ReadCsv(file) ==
    [cols |-> file.cols,
     dtype |-> [c \in file.cols |-> ReadCsvDtype(file, c)],
     rows |-> file.rows]


(***************************************************************************)
(* train_iforest.py, lines 23-31: date expansion and the schema partition. *)
(***************************************************************************)
HasNaT(df) == \E i \in RowIdx(df) : ~ParsesAsDate(df.rows[i][DateCol])

\* Series.dt.year/.month/.day: int32 when every value parsed, float64 (with
\* NaN) as soon as one value is NaT.
DatePartDtype(df) == IF HasNaT(df) THEN "float64" ELSE "int32"

DateExpand(df) ==
    LET cols == (df.cols \ {DateCol}) \cup DateParts
    IN  [cols |-> cols,
         dtype |-> [c \in cols |-> IF c \in DateParts THEN DatePartDtype(df)
                                                    ELSE df.dtype[c]],
         rows |-> [i \in RowIdx(df) |->
                     [c \in cols |-> IF c \in DateParts
                                     THEN DatePart(df.rows[i][DateCol], c)
                                     ELSE df.rows[i][c]]]]

DateHandling(df, use_date_features) ==
    IF use_date_features /\ DateCol \in df.cols THEN DateExpand(df) ELSE df

\* df.select_dtypes(include=[...]).columns
select_dtypes(df, include) == {c \in df.cols : df.dtype[c] \in include}

num_cols(df) == select_dtypes(df, {"int64", "float64"})

cat_cols(df) == select_dtypes(df, {"object", "bool"})

(***************************************************************************)
(* The fitted preprocessor (ColumnTransformer of lines 33-44).  Numbers    *)
(* are kept exact: a numeric value x is carried as 2x, so that a median of *)
(* two integers is an integer.                                             *)
(***************************************************************************)
RECURSIVE SumOver(_, _)
SumOver(f, S) ==
    IF S = {} THEN 0
    ELSE LET x == CHOOSE y \in S : TRUE IN f[x] + SumOver(f, S \ {x})

Observed(df, c) == {i \in RowIdx(df) : df.rows[i][c] # NaN}

KthSmallest(df, c, k) ==
    LET obs == Observed(df, c)
        v(i) == df.rows[i][c]
    IN  v(CHOOSE i \in obs :
              /\ Cardinality({j \in obs : v(j) < v(i)}) < k
              /\ k <= Cardinality({j \in obs : v(j) <= v(i)}))

\* SimpleImputer(strategy="median").fit: twice the median of the observed
\* values, NaN for a column with no observed value (the imputer drops it)
Median2(df, c) ==
    LET n == Cardinality(Observed(df, c))
    IN  IF n = 0 THEN NaN
        ELSE KthSmallest(df, c, (n + 1) \div 2) + KthSmallest(df, c, (n \div 2) + 1)

\* SimpleImputer.transform on one value
Impute2(x, median2) == IF x = NaN THEN median2 ELSE 2 * x

\* StandardScaler.fit on the imputed column: sum2 = 2 * sum, n = rows,
\* sq = sum of (2n(x - mean))^2 = 4 n^3 var
ScalerFit(df, c, median2) ==
    LET n == Len(df.rows)
        x2 == [i \in RowIdx(df) |-> Impute2(df.rows[i][c], median2)]
        sum2 == SumOver(x2, RowIdx(df))
        dev == [i \in RowIdx(df) |-> (n * x2[i] - sum2) * (n * x2[i] - sum2)]
    IN  [sum2 |-> sum2, n |-> n, sq |-> SumOver(dev, RowIdx(df))]

\* OneHotEncoder.fit: the categories seen in the column
Categories(df, c) == {df.rows[i][c] : i \in RowIdx(df)}

PreprocessorFit(df) ==
    LET num == num_cols(df)
        cat == cat_cols(df)
        med == [c \in num |-> Median2(df, c)]
    IN  [num |-> num,
         cat |-> cat,
         median2 |-> med,
         scaler |-> [c \in num |-> IF med[c] = NaN THEN [sum2 |-> 0, n |-> 0, sq |-> 0]
                                   ELSE ScalerFit(df, c, med[c])],
         vocab |-> [c \in cat |-> Categories(df, c)]]

\* columns of the feature matrix the preprocessor produces
NumFeatures(pre) == {c \in pre.num : pre.median2[c] # NaN}

FeatureCount(pre) ==
    Cardinality(NumFeatures(pre)) + SumOver([c \in pre.cat |-> Cardinality(pre.vocab[c])], pre.cat)

\* pipe.fit(df), train_iforest.py line 60: fails (ValueError) on a dataset
\* with no row or when no feature is left; otherwise the fitted pipeline
NoPipeline == [fitted |-> FALSE]

PipeFit(df) ==
    IF Len(df.rows) = 0 \/ FeatureCount(PreprocessorFit(df)) = 0
    THEN NoPipeline
    ELSE [fitted |-> TRUE, preprocess |-> PreprocessorFit(df)]

(***************************************************************************)
(* Transform and prediction with a fitted pipeline (both scripts).         *)
(***************************************************************************)
\* (a check that also rejects a column the schema does not know)
MissingColumnsStrict(pre, df) ==
    ((pre.num \cup pre.cat) \ df.cols) \cup (df.cols \ (pre.num \cup pre.cat))

\* ColumnTransformer.transform: the columns named at fit time that X lacks
MissingColumns(pre, df) == (pre.num \cup pre.cat) \ df.cols

\* scaled numeric feature: 2n(x - mean) after imputation
ScaleValue(pre, c, x) ==
    pre.scaler[c].n * Impute2(x, pre.median2[c]) - pre.scaler[c].sum2

\* OneHotEncoder(handle_unknown="ignore"): the indicator columns set to 1;
\* the empty set is the all-zero indicator of an unseen category
OneHot(pre, c, x) == {v \in pre.vocab[c] : v = x}

TransformRow(pre, row) ==
    [num |-> [c \in NumFeatures(pre) |-> ScaleValue(pre, c, row[c])],
     cat |-> [c \in pre.cat |-> OneHot(pre, c, row[c])]]

\* |z| > 1 for a scaled value (scale_ is 1 for a constant column)
FarFromMean(pre, c, v) ==
    LET s == pre.scaler[c]
    IN  IF s.sq = 0 THEN v * v > 4 * s.n * s.n ELSE v * v * s.n > s.sq

\* IsolationForest.decision_function: library code, modelled by a
\* deterministic score that falls as the record gets easier to isolate from
\* the fit data (features far from the fitted mean, categories never seen)
decision_function(pre, x) ==
    1 - ( Cardinality({c \in DOMAIN x.num : FarFromMean(pre, c, x.num[c])})
        + Cardinality({c \in DOMAIN x.cat : x.cat[c] = {}}) )

\* IsolationForest.predict: -1 where decision_function < 0, else 1
PredictLabel(score) == IF score < 0 THEN 0 - 1 ELSE 1

\* preds / scores of both scripts: label and score of every row, in order
PredictRows(pipe, df) ==
    [i \in RowIdx(df) |->
        LET score == decision_function(pipe.preprocess,
                                       TransformRow(pipe.preprocess, df.rows[i]))
        IN  [anomaly_pred |-> PredictLabel(score), anomaly_score |-> score]]

\* float((preds == -1).mean()) as the pair (anomalies, rows)
AnomalyRate(preds) ==
    [anomalies |-> Cardinality({i \in DOMAIN preds : preds[i].anomaly_pred = 0 - 1}),
     rows |-> Len(preds)]

\* df["anomaly_pred"] = preds; df["anomaly_score"] = scores; df.to_csv(out)
ScoredFile(df, preds) ==
    [i \in RowIdx(df) |-> [record |-> df.rows[i],
                           anomaly_pred |-> preds[i].anomaly_pred,
                           anomaly_score |-> preds[i].anomaly_score]]

(***************************************************************************)
(* State.                                                                  *)
(***************************************************************************)
VARIABLES
    now,         \* wall clock (milliseconds), read by mlflow.start_run
    experiment,  \* whether experiment "traffic_anomaly_detection" exists
    runs,        \* the experiment's Runs, in the order the registry stored them
    proc,        \* per slot: the script process running there
    task,        \* per DAG execution: state of train_model and score_model
    scored       \* the scored file last written (--out), and what it was made from

vars == <<now, experiment, runs, proc, task, scored>>

\* "retries": 1 of the DAG's default_args
retries == 1

\* Process slots.  In Spec slot e runs the tasks of DAG execution e; in
\* SpecCli and SpecData a slot is a shell in which the scripts are run by hand.
Slots == 1..MaxProcs
ExecIds == Slots
Shell == CHOOSE p \in Slots : \A q \in Slots : p <= q
TaskIds == {"train_model", "score_model"}

Latest == <<"latest">>
\* f"runs:/{run_id}/model"
RunUri(run_id) == <<"runs:/", run_id, "/model">>
ExplicitUris == {RunUri(i) : i \in 1..MaxRuns}

NoDf == [cols |-> {}, dtype |-> <<>>, rows |-> <<>>]
NoScored == [written |-> FALSE, model_uri |-> <<>>, file |-> [cols |-> {}, rows |-> <<>>],
             rows |-> <<>>]
NoMetric == [anomalies |-> 0, rows |-> 0]

NoProc ==
    [kind |-> "none", pc |-> "idle", use_date_features |-> FALSE,
     model_uri |-> <<>>, csv |-> {}, df |-> NoDf, num_cols |-> {}, cat_cols |-> {},
     start_time |-> 0, run_id |-> 0, pipe |-> NoPipeline, queried |-> FALSE,
     err |-> "none", wrote |-> FALSE]

Exited(p) == proc[p].pc \in {"exit0", "exit1"}

\* python <script> <args>: a fresh process at the top of main()
Launch(kind, use_date_features, model_uri) ==
    [NoProc EXCEPT !.kind = kind,
                   !.pc = IF kind = "train" THEN "begin" ELSE "resolve",
                   !.use_date_features = use_date_features,
                   !.model_uri = model_uri]

\* The process ends and its memory is gone.  What is kept of it is its exit
\* status and message and, as history, what it had asked for and read.
Exit(q, status, err) ==
    [NoProc EXCEPT !.kind = q.kind, !.pc = status, !.err = err, !.csv = q.csv,
                   !.run_id = q.run_id, !.wrote = q.wrote]

\* an uncaught exception: a non-zero exit status
Raise(p, err) == [proc EXCEPT ![p] = Exit(proc[p], "exit1", err)]

RunIdx == 1..Len(runs)

\* the position in storage of the Run with this identifier (0: none)
FindRun(rs, run_id) ==
    IF \E i \in 1..Len(rs) : rs[i].run_id = run_id
    THEN CHOOSE i \in 1..Len(rs) : rs[i].run_id = run_id
    ELSE 0

(***************************************************************************)
(* train_iforest.py                                                        *)
(***************************************************************************)
\* lines 21-57: read_csv, date expansion, schema partition, set_experiment
TrainBegin(p, file, readable, registry_ok) ==
    /\ proc[p].kind = "train" /\ proc[p].pc = "begin"
    /\ IF ~readable
       THEN /\ proc' = Raise(p, "FileNotFoundError")
            /\ UNCHANGED experiment
       ELSE LET df == DateHandling(ReadCsv(file), proc[p].use_date_features)
                q == [proc EXCEPT ![p].csv = file.cols,
                                  ![p].df = df,
                                  ![p].num_cols = num_cols(df),
                                  ![p].cat_cols = cat_cols(df)]
            IN  IF registry_ok
                THEN /\ proc' = [q EXCEPT ![p].pc = "start_run"]
                     /\ experiment' = TRUE
                ELSE /\ proc' = [q EXCEPT ![p] = Exit(q[p], "exit1", "MlflowException")]
                     /\ UNCHANGED experiment
    /\ UNCHANGED <<now, runs, task, scored>>

\* line 59, client side: mlflow.start_run stamps the Run with the clock
\* (elapsed: whether the clock has advanced since it was last read)
TrainStartRun(p, elapsed) ==
    /\ proc[p].kind = "train" /\ proc[p].pc = "start_run"
    /\ now + elapsed <= MaxTime
    /\ now' = now + elapsed
    /\ proc' = [proc EXCEPT ![p].start_time = now + elapsed, ![p].pc = "create_run"]
    /\ UNCHANGED <<experiment, runs, task, scored>>

NewRun(p) ==
    [run_id |-> Len(runs) + 1, start_time |-> proc[p].start_time,
     status |-> "RUNNING", has_metric |-> FALSE, anomaly_rate |-> NoMetric,
     model |-> NoPipeline,
     \* history, not registry content: who trained it, and on what
     slot |-> p, csv |-> proc[p].csv, use_date_features |-> proc[p].use_date_features]

\* (a registry write that replaces the experiment's Runs instead of adding one)
TrainCreateRunOverwrite(p, registry_ok) ==
    /\ proc[p].kind = "train" /\ proc[p].pc = "create_run"
    /\ runs' = <<[NewRun(p) EXCEPT !.run_id = 1]>>
    /\ proc' = [proc EXCEPT ![p].run_id = 1, ![p].pc = "fit"]
    /\ UNCHANGED <<now, experiment, task, scored>>

\* line 59, registry side: the Run is created (RUNNING) before anything is fitted
TrainCreateRun(p, registry_ok) ==
    /\ proc[p].kind = "train" /\ proc[p].pc = "create_run"
    /\ Len(runs) < MaxRuns
    /\ IF registry_ok
       THEN /\ runs' = Append(runs, NewRun(p))
            /\ proc' = [proc EXCEPT ![p].run_id = Len(runs) + 1, ![p].pc = "fit"]
       ELSE /\ proc' = Raise(p, "MlflowException")
            /\ UNCHANGED runs
    /\ UNCHANGED <<now, experiment, task, scored>>

\* leaving the "with mlflow.start_run()" block on an exception
EndRunFailed(p) == [runs EXCEPT ![FindRun(runs, proc[p].run_id)].status = "FAILED"]

\* lines 60-66: fit, self-check, log_metric
TrainFit(p, registry_ok) ==
    /\ proc[p].kind = "train" /\ proc[p].pc = "fit"
    /\ LET pipe == PipeFit(proc[p].df)
           r == FindRun(runs, proc[p].run_id)
       IN  IF ~pipe.fitted
           THEN /\ runs' = EndRunFailed(p)
                /\ proc' = Raise(p, "ValueError")
           ELSE IF ~registry_ok
           THEN /\ runs' = EndRunFailed(p)
                /\ proc' = Raise(p, "MlflowException")
           ELSE /\ runs' = [runs EXCEPT ![r].has_metric = TRUE,
                                        ![r].anomaly_rate =
                                            AnomalyRate(PredictRows(pipe, proc[p].df))]
                /\ proc' = [proc EXCEPT ![p].pipe = pipe, ![p].pc = "log_model"]
    /\ UNCHANGED <<now, experiment, task, scored>>

\* lines 67-69: log_model, then the block ends the Run as FINISHED
TrainLogModel(p, registry_ok) ==
    /\ proc[p].kind = "train" /\ proc[p].pc = "log_model"
    /\ LET r == FindRun(runs, proc[p].run_id)
       IN  IF registry_ok
           THEN /\ runs' = [runs EXCEPT ![r].model = proc[p].pipe,
                                        ![r].status = "FINISHED"]
                /\ proc' = [proc EXCEPT ![p] = Exit(proc[p], "exit0", "none")]
           ELSE /\ runs' = EndRunFailed(p)
                /\ proc' = Raise(p, "MlflowException")
    /\ UNCHANGED <<now, experiment, task, scored>>

(***************************************************************************)
(* score_iforest.py                                                        *)
(***************************************************************************)
\* (the Run stored last, whatever its start time)
search_runs_last_stored(rs) == IF rs = <<>> THEN {} ELSE {Len(rs)}

\* mlflow.search_runs(order_by=["start_time DESC"], max_results=1): the
\* positions a first row can come from (any of them when start times tie)
search_runs(rs) ==
    {i \in 1..Len(rs) : \A j \in 1..Len(rs) : rs[j].start_time <= rs[i].start_time}

\* (a resolution that checks nothing and falls back to the first Run)
ScoreResolveUnchecked(p, registry_ok) ==
    /\ proc[p].kind = "score" /\ proc[p].pc = "resolve"
    /\ proc' = [proc EXCEPT ![p].pc = "apply",
                            ![p].model_uri = IF proc[p].model_uri = Latest
                                             THEN RunUri(1) ELSE proc[p].model_uri]
    /\ UNCHANGED <<now, experiment, runs, task, scored>>

\* lines 105-121: resolution of "latest"; an explicit reference is kept
ScoreResolve(p, registry_ok) ==
    /\ proc[p].kind = "score" /\ proc[p].pc = "resolve"
    /\ LET q == [proc EXCEPT ![p].queried = TRUE]
       IN  IF proc[p].model_uri # Latest
           THEN proc' = [proc EXCEPT ![p].pc = "apply"]
           ELSE IF ~registry_ok
           THEN proc' = [q EXCEPT ![p] = Exit(q[p], "exit1", "MlflowException")]
           ELSE IF ~experiment
           THEN proc' = [q EXCEPT ![p] = Exit(q[p], "exit1", "ValueError: Experiment not found")]
           ELSE IF search_runs(runs) = {}
           THEN proc' = [q EXCEPT ![p] = Exit(q[p], "exit1", "ValueError: No runs found")]
           ELSE \E i \in search_runs(runs) :
                   proc' = [q EXCEPT ![p].model_uri = RunUri(runs[i].run_id),
                                     ![p].pc = "apply"]
    /\ UNCHANGED <<now, experiment, runs, task, scored>>

\* mlflow.sklearn.load_model("runs:/<run_id>/model")
load_model(rs, model_uri) ==
    LET r == FindRun(rs, model_uri[2])
    IN  IF r = 0 THEN NoPipeline ELSE rs[r].model

\* lines 123-134: read_csv, load_model, predict, transform, decision_function,
\* to_csv.  The registry is only read.
ScoreApply(p, file, readable, registry_ok) ==
    /\ proc[p].kind = "score" /\ proc[p].pc = "apply"
    /\ IF ~readable
       THEN /\ proc' = Raise(p, "FileNotFoundError")
            /\ UNCHANGED scored
       ELSE LET df == ReadCsv(file)
                model == load_model(runs, proc[p].model_uri)
                q == [proc EXCEPT ![p].csv = file.cols, ![p].df = df,
                                  ![p].run_id = proc[p].model_uri[2]]
            IN  IF ~registry_ok \/ ~model.fitted
                THEN /\ proc' = [q EXCEPT ![p] = Exit(q[p], "exit1", "MlflowException")]
                     /\ UNCHANGED scored
                ELSE IF MissingColumns(model.preprocess, df) # {}
                THEN /\ proc' = [q EXCEPT ![p] = Exit(q[p], "exit1", "ValueError: columns are missing")]
                     /\ UNCHANGED scored
                ELSE IF Len(df.rows) = 0
                THEN /\ proc' = [q EXCEPT ![p] = Exit(q[p], "exit1", "ValueError: 0 samples")]
                     /\ UNCHANGED scored
                ELSE /\ proc' = [q EXCEPT ![p].pc = "report", ![p].pipe = model,
                                          ![p].wrote = TRUE]
                     /\ scored' = [written |-> TRUE, model_uri |-> proc[p].model_uri,
                                   file |-> file,
                                   rows |-> ScoredFile(df, PredictRows(model, df))]
    /\ UNCHANGED <<now, experiment, runs, task>>

\* line 137: create_visualizations(df, args.viz_dir); its exceptions (mkdir of
\* a directory whose parent is missing, savefig, open) are not caught
ScoreReport(p, viz_ok) ==
    /\ proc[p].kind = "score" /\ proc[p].pc = "report"
    /\ proc' = IF viz_ok THEN [proc EXCEPT ![p] = Exit(proc[p], "exit0", "none")]
                         ELSE Raise(p, "ReportError")
    /\ UNCHANGED <<now, experiment, runs, task, scored>>

(***************************************************************************)
(* dag_anomaly_mlflow.py: two BashOperator tasks, train_model >> score_model,*)
(* default trigger rule (all upstream tasks succeeded), retries = 1.        *)
(***************************************************************************)
NoTask == [state |-> "none", try_number |-> 0]

\* the task of execution e whose process occupies slot e
Running(e) == CHOOSE t \in TaskIds : task[e][t].state = "running"

\* the DAG has schedule=None: an execution exists only once triggered
Trigger(e) ==
    /\ \A t \in TaskIds : task[e][t].state = "none"
    /\ task' = [task EXCEPT ![e] = [t \in TaskIds |-> [state |-> "scheduled", try_number |-> 0]]]
    /\ UNCHANGED <<now, experiment, runs, proc, scored>>

\* train_model >> score_model
Upstream(t) == IF t = "score_model" THEN {"train_model"} ELSE {}

\* (a trigger rule that does not look upstream)
RunnableAlways(e, t) == task[e][t].state \in {"scheduled", "up_for_retry"}

Runnable(e, t) ==
    /\ task[e][t].state \in {"scheduled", "up_for_retry"}
    /\ \A u \in Upstream(t) : task[e][u].state = "success"

\* the bash_command: pip install && export && python <script> <arguments>
BashCommand(t, pip_ok) ==
    IF ~pip_ok THEN [NoProc EXCEPT !.kind = "bash", !.pc = "exit1", !.err = "pip"]
    ELSE IF t = "train_model" THEN Launch("train", TRUE, <<>>)
    ELSE Launch("score", FALSE, Latest)

RunTask(e, t, pip_ok) ==
    /\ Runnable(e, t)
    /\ task' = [task EXCEPT ![e][t].state = "running",
                            ![e][t].try_number = task[e][t].try_number + 1]
    /\ proc' = [proc EXCEPT ![e] = BashCommand(t, pip_ok)]
    /\ UNCHANGED <<now, experiment, runs, scored>>

\* the state a finished attempt leaves the task in
AfterAttempt(exit_ok, try_number) ==
    IF exit_ok THEN "success"
    ELSE IF try_number <= retries THEN "up_for_retry"
    ELSE "failed"

TaskExit(e) ==
    /\ \E t \in TaskIds : task[e][t].state = "running"
    /\ Exited(e)
    /\ task' = [task EXCEPT ![e][Running(e)].state =
                   AfterAttempt(proc[e].pc = "exit0", task[e][Running(e)].try_number)]
    /\ proc' = [proc EXCEPT ![e] = NoProc]
    /\ UNCHANGED <<now, experiment, runs, scored>>

UpstreamFailed(e, t) ==
    /\ task[e][t].state = "scheduled"
    /\ \E u \in Upstream(t) : task[e][u].state \in {"failed", "upstream_failed"}
    /\ task' = [task EXCEPT ![e][t].state = "upstream_failed"]
    /\ UNCHANGED <<now, experiment, runs, proc, scored>>

(***************************************************************************)
(* The scripts run by hand in shell p, with any arguments.                 *)
(***************************************************************************)
CliFree(p) == proc[p].kind = "none" \/ Exited(p)

CliTrain(p, use_date_features) ==
    /\ CliFree(p)
    /\ proc' = [proc EXCEPT ![p] = Launch("train", use_date_features, <<>>)]
    /\ UNCHANGED <<now, experiment, runs, task, scored>>

CliScore(p, model_uri) ==
    /\ CliFree(p)
    /\ proc' = [proc EXCEPT ![p] = Launch("score", FALSE, model_uri)]
    /\ UNCHANGED <<now, experiment, runs, task, scored>>

(***************************************************************************)
(* Specifications.                                                         *)
(***************************************************************************)
Init ==
    /\ now = 0
    /\ experiment = FALSE
    /\ runs = <<>>
    /\ proc = [p \in Slots |-> NoProc]
    /\ task = [e \in ExecIds |-> [t \in TaskIds |-> NoTask]]
    /\ scored = NoScored

\* The files of the system specifications: a header-only file, one whose
\* date parses and one whose date does not.
SysFiles == {f \in FilesOver(RawCols, 1) :
                \A i \in 1..Len(f.rows) : f.rows[i].speed = 10 /\ f.rows[i].weather = "rain"}

\* The file of the DAG (DATA_PATH), header only or with one row.
DagFiles == {f \in SysFiles : \A i \in 1..Len(f.rows) : ParsesAsDate(f.rows[i][DateCol])}

\* the steps of the scripts over the given files, in an environment that can
\* fail at each of them
ScriptStep(p, files) ==
    \/ \E f \in files, readable, ok \in BOOLEAN : TrainBegin(p, f, readable, ok)
    \/ \E elapsed \in {0, 1} : TrainStartRun(p, elapsed)
    \/ \E ok \in BOOLEAN : TrainCreateRun(p, ok)
    \/ \E ok \in BOOLEAN : TrainFit(p, ok)
    \/ \E ok \in BOOLEAN : TrainLogModel(p, ok)
    \/ \E ok \in BOOLEAN : ScoreResolve(p, ok)
    \/ \E f \in files, readable, ok \in BOOLEAN : ScoreApply(p, f, readable, ok)
    \/ \E viz_ok \in BOOLEAN : ScoreReport(p, viz_ok)

\* The DAG: manually triggered executions, which may overlap.
Next ==
    \/ \E e \in ExecIds : Trigger(e)
    \/ \E e \in ExecIds, t \in TaskIds, pip_ok \in BOOLEAN : RunTask(e, t, pip_ok)
    \/ \E e \in ExecIds : TaskExit(e)
    \/ \E e \in ExecIds, t \in TaskIds : UpstreamFailed(e, t)
    \/ \E p \in Slots : ScriptStep(p, DagFiles)

Spec == Init /\ [][Next]_vars

\* The scripts run by hand, concurrently: training in every shell, scoring
\* (which only reads the registry) in the first, with any model reference.
NextCli ==
    \/ \E p \in Slots : CliTrain(p, FALSE)
    \/ \E uri \in {Latest} \cup ExplicitUris : CliScore(Shell, uri)
    \/ \E p \in Slots : ScriptStep(p, SysFiles)

SpecCli == Init /\ [][NextCli]_vars

\* The data path: one training and any number of scorings run by hand, over
\* every training file of up to MaxRows rows and every file to score of up
\* to MaxScoreRows rows, in an environment that does not fail.
NextData ==
    \/ \E flag \in BOOLEAN : runs = <<>> /\ CliTrain(Shell, flag)
    \/ CliScore(Shell, Latest)
    \/ \E f \in TrainFiles : TrainBegin(Shell, f, TRUE, TRUE)
    \/ TrainStartRun(Shell, 0)
    \/ TrainCreateRun(Shell, TRUE)
    \/ TrainFit(Shell, TRUE)
    \/ TrainLogModel(Shell, TRUE)
    \/ ScoreResolve(Shell, TRUE)
    \/ \E f \in ScoreFiles : ScoreApply(Shell, f, TRUE, TRUE)
    \/ ScoreReport(Shell, TRUE)

SpecData == Init /\ [][NextData]_vars

(***************************************************************************)
(* Claims about the data path (SpecData).                                  *)
(***************************************************************************)
\* the Run a scoring process loaded its pipeline from (0: none)
LoadedRun(p) == FindRun(runs, proc[p].run_id)

HasLoaded(p) ==
    /\ proc[p].kind = "score"
    /\ proc[p].pc \in {"report", "exit0", "exit1"}
    /\ proc[p].csv # {}
    /\ LoadedRun(p) # 0
    /\ runs[LoadedRun(p)].model.fitted

\* C1: when Training ran with use_date_features on a file that has the
\* crash_date column and registered a pipeline, Scoring a (non-empty) file
\* with the same header against that pipeline succeeds and writes one scored
\* record, with a label and a score, per input record.
C1_DateExpansionReplayed ==
    \A p \in Slots :
        ( /\ HasLoaded(p)
          /\ runs[LoadedRun(p)].use_date_features
          /\ DateCol \in runs[LoadedRun(p)].csv
          /\ proc[p].csv = runs[LoadedRun(p)].csv
          /\ proc[p].err # "ValueError: 0 samples" )
        => /\ proc[p].pc # "exit1"
           /\ proc[p].wrote
           /\ proc[p].pc = "report" =>
                /\ Len(scored.rows) = Len(proc[p].df.rows)
                /\ \A i \in 1..Len(scored.rows) :
                      scored.rows[i].anomaly_pred \in {0 - 1, 1}

\* C2: whenever Training runs the date expansion on a non-empty file, year,
\* month and day are numeric columns of the schema, crash_date is in neither
\* set, and every column left after date handling is in exactly one of the
\* numeric and categorical sets.
C2_DatePartsInSchema ==
    \A p \in Slots :
        ( /\ proc[p].kind = "train"
          /\ proc[p].pc \in {"start_run", "create_run", "fit", "log_model"}
          /\ proc[p].use_date_features
          /\ DateCol \in proc[p].csv
          /\ Len(proc[p].df.rows) > 0 )
        => /\ DateParts \subseteq proc[p].num_cols
           /\ DateCol \notin proc[p].num_cols \cup proc[p].cat_cols
           /\ proc[p].num_cols \cap proc[p].cat_cols = {}
           /\ proc[p].df.cols = proc[p].num_cols \cup proc[p].cat_cols

\* C9: Scoring with a loaded pipeline fails with the missing-columns error
\* exactly when the file lacks a column of the fit-time numeric or
\* categorical schema; it fails for no other reason than that or an empty
\* file; and a category absent from the fit-time vocabulary is encoded as
\* the all-zero indicator.
SchemaOf(p) ==
    runs[LoadedRun(p)].model.preprocess.num \cup runs[LoadedRun(p)].model.preprocess.cat

UnseenCategory(pre, row) == {c \in pre.cat : row[c] \notin pre.vocab[c]}

C9_SchemaFailureIffMissingColumn ==
    \A p \in Slots :
        HasLoaded(p) =>
          /\ (proc[p].err = "ValueError: columns are missing")
                <=> ~(SchemaOf(p) \subseteq proc[p].csv)
          /\ proc[p].pc = "exit1" =>
                proc[p].err \in {"ValueError: columns are missing", "ValueError: 0 samples"}
          /\ proc[p].pc = "report" =>
                \A i \in RowIdx(proc[p].df) :
                   \A c \in UnseenCategory(proc[p].pipe.preprocess, proc[p].df.rows[i]) :
                      TransformRow(proc[p].pipe.preprocess, proc[p].df.rows[i]).cat[c] = {}

\* a file with a column the schema does not know and a category it never saw
\* has been scored
C9_Witness ==
    \E p \in Slots :
        /\ HasLoaded(p)
        /\ proc[p].pc = "report"
        /\ ~(proc[p].csv \subseteq SchemaOf(p))
        /\ \E i \in RowIdx(proc[p].df) :
              UnseenCategory(proc[p].pipe.preprocess, proc[p].df.rows[i]) # {}

(***************************************************************************)
(* Claims about the DAG (Spec).                                            *)
(***************************************************************************)
\* execution e has registered a pipeline: a finished Run with its artifact
TrainingRegistered(e) ==
    \E r \in RunIdx : /\ runs[r].slot = e
                      /\ runs[r].status = "FINISHED"
                      /\ runs[r].model.fitted

\* C3: in every DAG execution score_model is started only after an attempt
\* of train_model has succeeded, its model artifact written to the registry;
\* train_model is attempted at most 2 times; and once every attempt has
\* failed score_model is not started.
C3_ScoreAfterTrain ==
    \A e \in ExecIds :
        /\ task[e].train_model.try_number <= 2
        /\ (task[e].score_model.try_number > 0 \/ proc[e].kind = "score")
              => /\ task[e].train_model.state = "success"
                 /\ TrainingRegistered(e)
        /\ task[e].train_model.state = "failed"
              => /\ task[e].score_model.try_number = 0
                 /\ task[e].train_model.try_number = 2
                 /\ proc[e].kind # "score"

\* score_model runs in an execution whose first train_model attempt failed
C3_Witness ==
    \E e \in ExecIds :
        /\ proc[e].kind = "score"
        /\ task[e].score_model.state = "running"
        /\ task[e].train_model.try_number = 2

\* C4: in every DAG execution, the pipeline its score_model resolves through
\* "latest" is one registered by that execution's own train_model.
C4_ScoresOwnTraining ==
    \A e \in ExecIds :
        (proc[e].kind = "score" /\ proc[e].pc = "apply")
        => LET r == FindRun(runs, proc[e].model_uri[2])
           IN  r # 0 /\ runs[r].slot = e

(***************************************************************************)
(* Claims about the scripts and the registry (SpecCli).                    *)
(***************************************************************************)
\* C5: "latest" resolves to a Run of maximal start time, whatever the order
\* of storage, and the artifact loaded is that Run's model; an explicit
\* reference is used unchanged, without a query for Runs.
C5_LatestIsMaxStartTime ==
    [][\A p \in Slots :
         /\ (proc[p].kind = "score" /\ proc[p].pc = "resolve" /\ proc'[p].pc = "apply")
            => IF proc[p].model_uri = Latest
               THEN \E i \in RunIdx :
                       /\ \A j \in RunIdx : runs[j].start_time <= runs[i].start_time
                       /\ proc'[p].model_uri = <<"runs:/", runs[i].run_id, "/model">>
               ELSE /\ proc'[p].model_uri = proc[p].model_uri
                    /\ ~proc'[p].queried
         /\ (proc[p].kind = "score" /\ proc[p].pc = "apply" /\ proc'[p].pc = "report")
            => \E i \in RunIdx :
                  /\ proc[p].model_uri = <<"runs:/", runs[i].run_id, "/model">>
                  /\ proc'[p].pipe = runs[i].model
      ]_vars

\* "latest" has resolved to a Run that was stored before a Run of earlier
\* start time
C5_Witness ==
    \E p \in Slots :
        /\ proc[p].kind = "score" /\ proc[p].pc = "apply" /\ proc[p].queried
        /\ \E i, j \in RunIdx :
              /\ i < j
              /\ runs[j].start_time < runs[i].start_time
              /\ proc[p].model_uri = RunUri(runs[i].run_id)

\* C6: every Run whose Training invocation is over has both the anomaly_rate
\* metric and the model artifact (a failed invocation leaves no Run behind).
C6_NoPartialRun ==
    \A r \in RunIdx :
        runs[r].status # "RUNNING" => runs[r].has_metric /\ runs[r].model.fitted

\* C7: a Scoring invocation that ended in failure has written no scored file.
C7_FailedScoringWroteNothing ==
    \A p \in Slots :
        (proc[p].kind = "score" /\ proc[p].pc = "exit1") => ~proc[p].wrote

\* C8: when "latest" is asked for and the experiment does not exist or has
\* no Run, the invocation fails at once: with a resolution error whenever
\* the registry answered, which is none of the input errors, before the
\* dataset is read, an artifact loaded or anything written.
ResolutionErrors == {"ValueError: Experiment not found", "ValueError: No runs found"}

InputErrors == {"FileNotFoundError", "ValueError: columns are missing", "ValueError: 0 samples"}

C8_ResolutionErrorFirst ==
    [][\A p \in Slots :
         ( /\ proc[p].kind = "score" /\ proc[p].pc = "resolve"
           /\ proc[p].model_uri = Latest
           /\ ~experiment \/ runs = <<>>
           /\ proc'[p] # proc[p] )
         => /\ proc'[p].pc = "exit1"
            /\ proc'[p].err # "MlflowException" => proc'[p].err \in ResolutionErrors
            /\ proc'[p].err \notin InputErrors
            /\ proc'[p].csv = {}
            /\ proc'[p].run_id = 0
            /\ ~proc'[p].wrote
            /\ scored' = scored
      ]_vars

\* Scoring has failed because the experiment exists but holds no Run
C8_Witness ==
    \E p \in Slots :
        /\ proc[p].kind = "score" /\ proc[p].pc = "exit1"
        /\ proc[p].err = "ValueError: No runs found"
        /\ experiment /\ runs = <<>>

\* C10: the registry only grows: a Run keeps its identifier and start time,
\* its metric and its artifact once it has them; a step of a Scoring process
\* changes nothing in the registry; and a file scored again against the same
\* reference gives the same labels and scores.
C10_RegistryAppendOnly ==
    [][/\ Len(runs') >= Len(runs)
       /\ experiment => experiment'
       /\ \A i \in RunIdx :
             /\ runs'[i].run_id = runs[i].run_id
             /\ runs'[i].start_time = runs[i].start_time
             /\ runs[i].has_metric =>
                   runs'[i].has_metric /\ runs'[i].anomaly_rate = runs[i].anomaly_rate
             /\ runs[i].model.fitted => runs'[i].model = runs[i].model
       /\ \A p \in Slots :
             (proc[p].kind = "score" /\ proc'[p] # proc[p] /\ proc'[p].kind = "score")
             => runs' = runs /\ experiment' = experiment
       /\ (scored.written /\ scored'.model_uri = scored.model_uri
                          /\ scored'.file = scored.file)
             => scored'.rows = scored.rows
      ]_vars

\* a file has been scored against the first Run while a second Run, with a
\* different pipeline, is in the registry
C10_Witness ==
    /\ Len(runs) >= 2
    /\ runs[2].model.fitted
    /\ runs[2].model # runs[1].model
    /\ scored.written
    /\ scored.model_uri = RunUri(runs[1].run_id)
    /\ \E p \in Slots :
          /\ proc[p].kind = "score" /\ proc[p].pc = "report"
          /\ proc[p].run_id = runs[1].run_id

=============================================================================
